---- MODULE Spec2Model ----
(***************************************************************************)
(* Model of app.py: one Streamlit script run for one uploaded bank         *)
(* statement.  The run loads the file (CSV, spreadsheet or PDF), for a PDF *)
(* recovers text lines (text layer, else OCR) and parses them with two     *)
(* regular expressions, normalizes the columns, categorizes, computes the  *)
(* statements and offers the PDF and Excel exports.                        *)
(*                                                                         *)
(* Text is modelled as TLA+ strings read character by character, so the    *)
(* regular expressions, str.replace, str.strip, str.split and float() are  *)
(* computed as Python computes them.  Amounts are integers in thousandths. *)
(***************************************************************************)
EXTENDS Integers, Sequences, FiniteSets, TLC

----------------------------------------------------------------------------
(* Bounds of the model *)

MaxPages == 2
MaxCols == 3

----------------------------------------------------------------------------
(* Python str primitives *)

Ch(s, i) == IF i >= 1 /\ i <= Len(s) THEN SubSeq(s, i, i) ELSE ""

Digits == {"0", "1", "2", "3", "4", "5", "6", "7", "8", "9"}
LowerCase == {"a", "b", "c", "d", "e", "f", "g", "h", "i", "j", "k", "l", "m",
              "n", "o", "p", "q", "r", "s", "t", "u", "v", "w", "x", "y", "z"}
UpperCase == {"A", "B", "C", "D", "E", "F", "G", "H", "I", "J", "K", "L", "M",
              "N", "O", "P", "Q", "R", "S", "T", "U", "V", "W", "X", "Y", "Z"}
WordChars == Digits \cup LowerCase \cup UpperCase \cup {"_"}
Whitespace == {" ", "\t", "\n", "\r"}

IsDigit(s, i) == Ch(s, i) \in Digits

DigitVal(c) ==
  CASE c = "0" -> 0 [] c = "1" -> 1 [] c = "2" -> 2 [] c = "3" -> 3
    [] c = "4" -> 4 [] c = "5" -> 5 [] c = "6" -> 6 [] c = "7" -> 7
    [] c = "8" -> 8 [] c = "9" -> 9

ToLower(c) ==
  CASE c = "A" -> "a" [] c = "B" -> "b" [] c = "C" -> "c" [] c = "D" -> "d"
    [] c = "E" -> "e" [] c = "F" -> "f" [] c = "G" -> "g" [] c = "H" -> "h"
    [] c = "I" -> "i" [] c = "J" -> "j" [] c = "K" -> "k" [] c = "L" -> "l"
    [] c = "M" -> "m" [] c = "N" -> "n" [] c = "O" -> "o" [] c = "P" -> "p"
    [] c = "Q" -> "q" [] c = "R" -> "r" [] c = "S" -> "s" [] c = "T" -> "t"
    [] c = "U" -> "u" [] c = "V" -> "v" [] c = "W" -> "w" [] c = "X" -> "x"
    [] c = "Y" -> "y" [] c = "Z" -> "z" [] OTHER -> c

\* s[i:i+len(sub)] == sub
StartsAt(s, sub, i) ==
  /\ i >= 1
  /\ i + Len(sub) - 1 <= Len(s)
  /\ SubSeq(s, i, i + Len(sub) - 1) = sub

\* sub in s
Contains(s, sub) == \E i \in 1..(Len(s) + 1) : StartsAt(s, sub, i)

\* s.endswith(suffix)
EndsWith(s, suffix) ==
  Len(suffix) <= Len(s) /\ StartsAt(s, suffix, Len(s) - Len(suffix) + 1)

\* s.lower()
RECURSIVE Lower(_)
Lower(s) == IF s = "" THEN "" ELSE ToLower(Ch(s, 1)) \o Lower(Tail(s))

\* s.replace(old, new) for a non-empty old: every non-overlapping occurrence,
\* left to right
RECURSIVE Replace(_, _, _)
Replace(s, old, new) ==
  IF s = "" THEN ""
  ELSE IF StartsAt(s, old, 1)
       THEN new \o Replace(SubSeq(s, Len(old) + 1, Len(s)), old, new)
       ELSE Ch(s, 1) \o Replace(Tail(s), old, new)

RECURSIVE LStrip(_)
LStrip(s) == IF s # "" /\ Ch(s, 1) \in Whitespace THEN LStrip(Tail(s)) ELSE s

RECURSIVE RStrip(_)
RStrip(s) ==
  IF s # "" /\ Ch(s, Len(s)) \in Whitespace
  THEN RStrip(SubSeq(s, 1, Len(s) - 1))
  ELSE s

\* s.strip()
Strip(s) == RStrip(LStrip(s))

\* s.split("\n"): always at least one piece, "" for the empty string
RECURSIVE SplitFrom(_, _, _)
SplitFrom(s, start, i) ==
  IF i > Len(s) THEN <<SubSeq(s, start, Len(s))>>
  ELSE IF Ch(s, i) = "\n"
       THEN <<SubSeq(s, start, i - 1)>> \o SplitFrom(s, i + 1, i + 1)
       ELSE SplitFrom(s, start, i + 1)

SplitLines(s) == SplitFrom(s, 1, 1)

----------------------------------------------------------------------------
(* The two regular expressions of parse_pdf_smart.  Neither can match the   *)
(* empty string, so "" stands for "no match" (None).                        *)

\* Number of consecutive characters of set cs in s from position p, at most max
RECURSIVE Run(_, _, _, _)
Run(s, p, cs, max) ==
  IF max > 0 /\ Ch(s, p) \in cs THEN 1 + Run(s, p + 1, cs, max - 1) ELSE 0

DateSeps == {"/", "-"}
MonthNames == {"Jan", "Feb", "Mar", "Apr", "May", "Jun",
               "Jul", "Aug", "Sep", "Oct", "Nov", "Dec"}

\* \d{2}[/-]\d{2}[/-]\d{2,4} at p: the length matched, 0 if none
DayMonthYearAt(s, p) ==
  IF /\ Run(s, p, Digits, 2) = 2
     /\ Ch(s, p + 2) \in DateSeps
     /\ Run(s, p + 3, Digits, 2) = 2
     /\ Ch(s, p + 5) \in DateSeps
     /\ Run(s, p + 6, Digits, 4) >= 2
  THEN 6 + Run(s, p + 6, Digits, 4)
  ELSE 0

\* \d{4}[/-]\d{2}[/-]\d{2} at p
YearMonthDayAt(s, p) ==
  IF /\ Run(s, p, Digits, 4) = 4
     /\ Ch(s, p + 4) \in DateSeps
     /\ Run(s, p + 5, Digits, 2) = 2
     /\ Ch(s, p + 7) \in DateSeps
     /\ Run(s, p + 8, Digits, 2) = 2
  THEN 10
  ELSE 0

\* [, ]*\d{4}\b after a day of k digits at d: the end of the match, 0 if none
MonthNameTail(s, d, k) ==
  LET r == d + k + Run(s, d + k, {",", " "}, Len(s))
  IN IF /\ Run(s, d, Digits, 2) >= k
        /\ Run(s, r, Digits, 4) = 4
        /\ Ch(s, r + 4) \notin WordChars
     THEN r + 4
     ELSE 0

\* \b(?:Jan|...|Dec)[a-z]*[ -]\d{1,2}[, ]*\d{4}\b at p; \d{1,2} is greedy and
\* gives a digit back when the rest fails
MonthNameAt(s, p) ==
  LET q == p + 3 + Run(s, p + 3, LowerCase, Len(s))
      e == IF MonthNameTail(s, q + 1, 2) > 0
           THEN MonthNameTail(s, q + 1, 2)
           ELSE MonthNameTail(s, q + 1, 1)
  IN IF /\ Ch(s, p - 1) \notin WordChars
        /\ SubSeq(s, p, p + 2) \in MonthNames
        /\ Ch(s, q) \in {" ", "-"}
        /\ e > 0
     THEN e - p
     ELSE 0

\* the alternatives of date_regex at p, in order
DateAt(s, p) ==
  IF DayMonthYearAt(s, p) > 0 THEN DayMonthYearAt(s, p)
  ELSE IF YearMonthDayAt(s, p) > 0 THEN YearMonthDayAt(s, p)
  ELSE IF p + 2 <= Len(s) THEN MonthNameAt(s, p)
  ELSE 0

RECURSIVE DateSearchFrom(_, _)
DateSearchFrom(s, p) ==
  IF p > Len(s) THEN ""
  ELSE IF DateAt(s, p) > 0 THEN SubSeq(s, p, p + DateAt(s, p) - 1)
  ELSE DateSearchFrom(s, p + 1)

\* re.search(date_regex, row): the leftmost match, as date_match.group()
date_regex(row) == DateSearchFrom(row, 1)

\* (?:[.,]\d{3})* from q: the position after the last group
RECURSIVE ThousandsGroups(_, _)
ThousandsGroups(s, q) ==
  IF Ch(s, q) \in {".", ","} /\ Run(s, q + 1, Digits, 3) = 3
  THEN ThousandsGroups(s, q + 4)
  ELSE q

\* -?\d{1,3}(?:[.,]\d{3})*(?:[.,]\d{2})? at p: the length matched, 0 if none
AmountAt(s, p) ==
  LET start == IF Ch(s, p) = "-" /\ IsDigit(s, p + 1) THEN p + 1 ELSE p
      g == ThousandsGroups(s, start + Run(s, start, Digits, 3))
      e == IF Ch(s, g) \in {".", ","} /\ Run(s, g + 1, Digits, 2) = 2
           THEN g + 3
           ELSE g
  IN IF IsDigit(s, start) THEN e - p ELSE 0

RECURSIVE FindAllFrom(_, _)
FindAllFrom(s, p) ==
  IF p > Len(s) THEN <<>>
  ELSE IF AmountAt(s, p) > 0
       THEN <<SubSeq(s, p, p + AmountAt(s, p) - 1)>>
              \o FindAllFrom(s, p + AmountAt(s, p))
       ELSE FindAllFrom(s, p + 1)

\* re.findall(amount_regex, text): the non-overlapping matches, left to right
amount_regex(text) == FindAllFrom(text, 1)

----------------------------------------------------------------------------
(* float(): a decimal literal to thousandths *)

RECURSIVE CountOf(_, _)
CountOf(s, c) ==
  IF s = "" THEN 0 ELSE (IF Ch(s, 1) = c THEN 1 ELSE 0) + CountOf(Tail(s), c)

RECURSIVE DigitsValue(_)
DigitsValue(s) ==
  IF s = "" THEN 0
  ELSE 10 * DigitsValue(SubSeq(s, 1, Len(s) - 1)) + DigitVal(Ch(s, Len(s)))

\* float(t) raises ValueError: t is not [-]digits[.digits]
FloatRaises(t) ==
  LET u == IF Ch(t, 1) = "-" THEN Tail(t) ELSE t
  IN \/ Replace(u, ".", "") = ""
     \/ CountOf(u, ".") > 1
     \/ \E i \in 1..Len(u) : Ch(u, i) \notin Digits \cup {"."}

\* float(t) in thousandths, for t with at most three decimals
Float(t) ==
  LET neg == Ch(t, 1) = "-"
      u == IF neg THEN Tail(t) ELSE t
      dot == IF CountOf(u, ".") = 0 THEN Len(u) + 1
             ELSE CHOOSE i \in 1..Len(u) : Ch(u, i) = "."
      whole == DigitsValue(SubSeq(u, 1, dot - 1))
      frac3 == SubSeq(SubSeq(u, dot + 1, Len(u)) \o "000", 1, 3)
      v == 1000 * whole + DigitsValue(frac3)
  IN IF neg THEN 0 - v ELSE v


----------------------------------------------------------------------------
(* DataFrame cells and tables.  A table is [columns, rows, origin]: rows    *)
(* is row-major, and origin[i] is the position, in the input the table was  *)
(* built from, of the line or record that row i came from.                  *)

NaN == [t |-> "nan", n |-> 0, s |-> ""]
Str(x) == [t |-> "str", n |-> 0, s |-> x]
Num(v) == [t |-> "num", n |-> v, s |-> ""]
Timestamp(v) == [t |-> "ts", n |-> v, s |-> ""]

NoFrame == [columns |-> <<>>, rows |-> <<>>, origin |-> <<>>]

\* the subsequence of seq at the positions in keep, in order
RECURSIVE Pick(_, _, _)
Pick(seq, keep, i) ==
  IF i > Len(seq) THEN <<>>
  ELSE (IF i \in keep THEN <<seq[i]>> ELSE <<>>) \o Pick(seq, keep, i + 1)

KeepColumns(frame, keep) ==
  [frame EXCEPT !.columns = Pick(frame.columns, keep, 1),
                !.rows = [i \in 1..Len(frame.rows) |-> Pick(frame.rows[i], keep, 1)]]

KeepRows(frame, keep) ==
  [frame EXCEPT !.rows = Pick(frame.rows, keep, 1),
                !.origin = Pick(frame.origin, keep, 1)]

HasColumn(frame, name) == \E j \in 1..Len(frame.columns) : frame.columns[j] = name

\* frame[name] for a label the frame holds once
ColumnOf(frame, name) ==
  LET j == CHOOSE k \in 1..Len(frame.columns) : frame.columns[k] = name
  IN [i \in 1..Len(frame.rows) |-> frame.rows[i][j]]

\* frame[name] = cells: replaces the column(s) of that label, else appends one
SetColumn(frame, name, cells) ==
  IF HasColumn(frame, name)
  THEN [frame EXCEPT !.rows =
          [i \in 1..Len(frame.rows) |->
             [j \in 1..Len(frame.columns) |->
                IF frame.columns[j] = name THEN cells[i] ELSE frame.rows[i][j]]]]
  ELSE [frame EXCEPT !.columns = Append(frame.columns, name),
                     !.rows = [i \in 1..Len(frame.rows) |->
                                 Append(frame.rows[i], cells[i])]]

----------------------------------------------------------------------------
(* pd.to_datetime(..., errors="coerce", dayfirst=True), cell by cell: the   *)
(* date as yyyymmdd, 0 for NaT.  A two-digit year is taken in 2000-2068 or  *)
(* 1969-1999, and a day-first reading with an impossible month falls back   *)
(* to month-first, as dateutil does.                                        *)

IsLeap(y) == (y % 4 = 0 /\ y % 100 # 0) \/ y % 400 = 0

DaysIn(m, y) ==
  IF m \in {4, 6, 9, 11} THEN 30
  ELSE IF m = 2 THEN (IF IsLeap(y) THEN 29 ELSE 28)
  ELSE 31

CalendarDate(y, m, d) ==
  IF m \in 1..12 /\ d >= 1 /\ d <= DaysIn(m, y) /\ y \in 1678..2261
  THEN 10000 * y + 100 * m + d
  ELSE 0

FullYear(ys) ==
  IF Len(ys) = 4 THEN DigitsValue(ys)
  ELSE IF Len(ys) = 2
       THEN (IF DigitsValue(ys) < 69 THEN 2000 ELSE 1900) + DigitsValue(ys)
       ELSE 0

MonthNumber(name) ==
  CASE name \in {"Jan", "January"} -> 1 [] name \in {"Feb", "February"} -> 2
    [] name \in {"Mar", "March"} -> 3 [] name \in {"Apr", "April"} -> 4
    [] name = "May" -> 5 [] name \in {"Jun", "June"} -> 6
    [] name \in {"Jul", "July"} -> 7 [] name \in {"Aug", "August"} -> 8
    [] name \in {"Sep", "Sept", "September"} -> 9
    [] name \in {"Oct", "October"} -> 10 [] name \in {"Nov", "November"} -> 11
    [] name \in {"Dec", "December"} -> 12 [] OTHER -> 0

to_datetime(s) ==
  IF DayMonthYearAt(s, 1) = Len(s) /\ s # ""
  THEN LET a == DigitsValue(SubSeq(s, 1, 2))
           b == DigitsValue(SubSeq(s, 4, 5))
           y == FullYear(SubSeq(s, 7, Len(s)))
       IN IF CalendarDate(y, b, a) > 0 THEN CalendarDate(y, b, a)
          ELSE CalendarDate(y, a, b)
  ELSE IF YearMonthDayAt(s, 1) = Len(s) /\ s # ""
  THEN CalendarDate(DigitsValue(SubSeq(s, 1, 4)), DigitsValue(SubSeq(s, 6, 7)),
                    DigitsValue(SubSeq(s, 9, 10)))
  ELSE IF Len(s) > 3 /\ MonthNameAt(s, 1) = Len(s)
  THEN LET q == 4 + Run(s, 4, LowerCase, Len(s))
           k == Run(s, q + 1, Digits, 2)
           dd == IF MonthNameTail(s, q + 1, 2) > 0 THEN k ELSE 1
       IN CalendarDate(DigitsValue(SubSeq(s, Len(s) - 3, Len(s))),
                       MonthNumber(SubSeq(s, 1, q - 1)),
                       DigitsValue(SubSeq(s, q + 1, q + dd)))
  ELSE 0


----------------------------------------------------------------------------
(* Uploads.  A PDF is a sequence of pages, each with the text of its text   *)
(* layer ("" for a scanned page) and the text OCR reads off its image.  A   *)
(* CSV or spreadsheet is a header and two records of cell text.             *)

\* statement lines holding one date token and one amount token
Transactions ==
  { [date |-> "01/02/2025", description |-> "Grocery Store", amount |-> "1,234.56"],
    [date |-> "03/04/2025", description |-> "Rent", amount |-> "-850.00"],
    [date |-> "99/99/2025", description |-> "Fee", amount |-> "12.50"],
    [date |-> "2025/09/02", description |-> "Shell", amount |-> "45.10"],
    [date |-> "Sep 2, 2025", description |-> "Salary", amount |-> "3,000.00"] }

LineOf(txn) == txn.date \o " " \o txn.description \o " " \o txn.amount

Grocery == "01/02/2025 Grocery Store 1,234.56"
Rent == "03/04/2025 Rent -850.00"
Fee == "99/99/2025 Fee 12.50"
Shell == "2025/09/02 Shell 45.10"
Salary == "Sep 2, 2025 Salary 3,000.00"
Transfer == "05/06/2025 Transfer"
Payment == "02/09/2025 Payment 1.234.567"
Footer == "Page 2 of 5"

Digital(text) == [text |-> text, image |-> text]
Scanned(text) == [text |-> "", image |-> text]

Pages ==
  { Digital(Grocery \o "\n" \o Footer),
    Digital(Rent \o "\n" \o Rent \o "\n" \o Transfer),
    Digital("Statement of account"),
    Digital(Shell \o "\n" \o Payment),
    Scanned(Fee \o "\n" \o Salary \o "\n" \o Rent),
    Scanned(Transfer \o "\n" \o Shell \o "\n"),
    Scanned("") }

PdfDocuments == UNION { [1..n -> Pages] : n \in 1..MaxPages }

\* header cell |-> the cell text of its two records
ColumnText ==
  [h \in {"Txn Date", "AMOUNT", "transaction_details", "debit", "credit",
          "Balance", "Transaction Amount"} |->
     CASE h = "Txn Date" -> <<"01/02/2025", "N/A">>
       [] h = "AMOUNT" -> <<"-10", "25">>
       [] h = "transaction_details" -> <<"Shell fuel", "Client payment">>
       [] h = "debit" -> <<"10", "0">>
       [] h = "credit" -> <<"0", "25">>
       [] h = "Balance" -> <<"100", "125">>
       [] h = "Transaction Amount" -> <<"-10.00", "25.00">>]

Headers == DOMAIN ColumnText

\* a column of the file: its header and whether its cells are all blank
FileColumns == [header : Headers, blank : BOOLEAN]

Tables ==
  UNION { { t \in [1..n -> FileColumns] :
              \A j, k \in 1..n : j # k => t[j].header # t[k].header } :
          n \in 1..MaxCols }

NoTable == <<>>
NoPdf == <<>>

Uploads ==
  { [name |-> "statement.csv", fault |-> "none", table |-> t, pdf |-> NoPdf] :
      t \in Tables }
  \cup { [name |-> "statement.xlsx", fault |-> "none", table |-> t, pdf |-> NoPdf] :
      t \in {u \in Tables : \A j \in 1..Len(u) : ~u[j].blank} }
  \cup { [name |-> nm, fault |-> f, table |-> NoTable, pdf |-> NoPdf] :
      nm \in {"statement.csv", "statement.xls"}, f \in {"ParserError", "Exception"} }
  \cup { [name |-> "statement.pdf", fault |-> "none", table |-> NoTable, pdf |-> d] :
      d \in PdfDocuments }
  \cup { [name |-> "STATEMENT.PDF", fault |-> "none", table |-> NoTable, pdf |-> d] :
      d \in [1..1 -> Pages] }

\* default na_values of pd.read_csv / pd.read_excel
NaValues == {"", "#N/A", "#N/A N/A", "#NA", "-1.#IND", "-1.#QNAN", "-NaN", "-nan",
             "1.#IND", "1.#QNAN", "<NA>", "N/A", "NA", "NULL", "NaN", "None",
             "n/a", "nan", "null"}

\* the value a cell of the file is read as
ReadCell(text) ==
  IF text \in NaValues THEN NaN
  ELSE IF FloatRaises(text) THEN Str(text)
  ELSE Num(Float(text))

\* pd.read_csv / pd.read_excel: first row is the header
ReadTable(t) ==
  LET n == Len(ColumnText[t[1].header])
  IN [columns |-> [j \in 1..Len(t) |-> t[j].header],
      rows |-> [i \in 1..n |->
                  [j \in 1..Len(t) |->
                     IF t[j].blank THEN NaN ELSE ReadCell(ColumnText[t[j].header][i])]],
      origin |-> [i \in 1..n |-> i]]


----------------------------------------------------------------------------
(* parse_pdf_smart: the column extraction of one text line *)

\* the body of the loop for one row: the two matches, and what is appended
ParseRow(row) ==
  LET date_val == date_regex(row)
      amounts == amount_regex(Replace(row, ",", ""))
      matches == date_val # "" /\ amounts # <<>>
      last == IF amounts # <<>> THEN amounts[Len(amounts)] ELSE ""
      literal == Replace(last, ",", "")
  IN [date_val |-> date_val,
      amounts |-> amounts,
      raises |-> matches /\ FloatRaises(literal),
      amount_val |-> IF matches /\ ~FloatRaises(literal) THEN Float(literal) ELSE 0,
      desc |-> IF matches
               THEN Strip(Replace(Replace(row, date_val, ""), last, ""))
               ELSE ""]

\* the lines the pages of the uploads hold
KnownLines ==
  UNION { {SplitLines(pg.image)[i] : i \in 1..Len(SplitLines(pg.image))} : pg \in Pages }

\* ParseRow, tabulated once for the known lines
ParsedLines == [row \in KnownLines |-> ParseRow(row)]

Parsed(row) == IF row \in KnownLines THEN ParsedLines[row] ELSE ParseRow(row)

date_match(row) == Parsed(row).date_val
amount_match(row) == Parsed(row).amounts

\* if date_match and amount_match
RowMatches(row) == date_match(row) # "" /\ amount_match(row) # <<>>

\* float(amount_match[-1].replace(",", "")) raises ValueError
RowRaises(row) == Parsed(row).raises

amount_val(row) == Parsed(row).amount_val

desc(row) == Parsed(row).desc

\* the loop over rows: one [date_val, desc, amount_val] per matching row
RECURSIVE ExtractFrom(_, _)
ExtractFrom(lines, i) ==
  IF i > Len(lines) THEN <<>>
  ELSE (IF RowMatches(lines[i])
        THEN << [cells |-> <<Str(date_match(lines[i])), Str(desc(lines[i])),
                             Num(amount_val(lines[i]))>>,
                 origin |-> i] >>
        ELSE <<>>) \o ExtractFrom(lines, i + 1)

ExtractData(lines) == ExtractFrom(lines, 1)

ExtractRaises(lines) == \E i \in 1..Len(lines) : RowRaises(lines[i])

\* pd.DataFrame(data, columns=["Date", "Description", "Amount"])
DataFrame(candidates) ==
  [columns |-> <<"Date", "Description", "Amount">>,
   rows |-> [i \in 1..Len(candidates) |-> candidates[i].cells],
   origin |-> [i \in 1..Len(candidates) |-> candidates[i].origin]]

\* df["Date"] = pd.to_datetime(df["Date"], errors="coerce", dayfirst=True)
ParseDates(frame) ==
  LET dates == ColumnOf(frame, "Date")
  IN SetColumn(frame, "Date",
       [i \in 1..Len(frame.rows) |->
          IF dates[i].t = "str" /\ to_datetime(dates[i].s) > 0
          THEN Timestamp(to_datetime(dates[i].s))
          ELSE NaN])

\* variant: drop_duplicates() added to the date filter
DropNaDatesAndDuplicates(frame) ==
  KeepRows(frame,
    {i \in 1..Len(frame.rows) :
       /\ ColumnOf(frame, "Date")[i].t # "nan"
       /\ \A k \in 1..(i - 1) : frame.rows[k] # frame.rows[i]})

\* df.dropna(subset=["Date"]).reset_index(drop=True)
DropNaDates(frame) ==
  KeepRows(frame, {i \in 1..Len(frame.rows) : ColumnOf(frame, "Date")[i].t # "nan"})

\* the frame parse_pdf_smart returns for the extracted candidates
BuildFrame(candidates) == DropNaDates(ParseDates(DataFrame(candidates)))

\* variant: OCR whenever no recovered line would yield a candidate
NeedsOcrWithoutCandidates(lines) == \A i \in 1..Len(lines) : ~RowMatches(lines[i])

\* if not rows: the OCR fallback is taken
NeedsOcr(lines) == lines = <<>>

\* the lines a page's text layer adds: if text: rows.append(each line)
TextLayerLines(pg) == IF pg.text # "" THEN SplitLines(pg.text) ELSE <<>>

\* rows.extend(pytesseract.image_to_string(image).split("\n"))
OcrLines(pg) == SplitLines(pg.image)

----------------------------------------------------------------------------
(* Flexible column detection and cleanup *)

\* variant: lower() left out
normalize_col_keeps_case(name) == Replace(Replace(Strip(name), " ", ""), "_", "")

normalize_col(name) == Replace(Replace(Lower(Strip(name)), " ", ""), "_", "")

\* the canonical name col_mapping gives a normalized column, "" if none
col_mapping(c) ==
  IF Contains(c, "date") THEN "Date"
  ELSE IF Contains(c, "description") \/ Contains(c, "details")
          \/ Contains(c, "transaction") THEN "Description"
  ELSE IF Contains(c, "amount") \/ Contains(c, "value") \/ Contains(c, "debit")
          \/ Contains(c, "credit") THEN "Amount"
  ELSE ""

\* the name lines 120-130 give a column: normalized, then renamed if mapped
RenamedColumn(name) ==
  LET c == normalize_col(name)
      canonical == col_mapping(c)
  IN IF canonical # "" THEN canonical ELSE c

\* RenamedColumn, tabulated once for the column names the uploads hold
RenamedColumns ==
  [name \in Headers \cup {"Date", "Description", "Amount"} |-> RenamedColumn(name)]

\* df.columns = [normalize_col(c) ...]; df.rename(columns=col_mapping)
RenameColumns(frame) ==
  [frame EXCEPT !.columns =
     [j \in 1..Len(frame.columns) |->
        IF frame.columns[j] \in DOMAIN RenamedColumns
        THEN RenamedColumns[frame.columns[j]]
        ELSE RenamedColumn(frame.columns[j])]]

\* series.fillna(0) of a numeric column
FillNa(cells) == [i \in 1..Len(cells) |-> IF cells[i].t = "num" THEN cells[i].n ELSE 0]

\* if "debit" in df.columns and "credit" in df.columns: Amount = credit - debit
CombineDebitCredit(frame) ==
  IF HasColumn(frame, "debit") /\ HasColumn(frame, "credit")
  THEN LET credit == FillNa(ColumnOf(frame, "credit"))
           debit == FillNa(ColumnOf(frame, "debit"))
           combined == SetColumn(frame, "Amount",
                         [i \in 1..Len(frame.rows) |-> Num(credit[i] - debit[i])])
       IN KeepColumns(combined,
            {j \in 1..Len(combined.columns) :
               combined.columns[j] \notin {"debit", "credit"}})
  ELSE frame

\* df.dropna(axis=1, how='all')
DropEmptyColumns(frame) ==
  KeepColumns(frame,
    {j \in 1..Len(frame.columns) :
       \E i \in 1..Len(frame.rows) : frame.rows[i][j].t # "nan"})

\* df.loc[:, ~df.columns.duplicated()]
DropDuplicateColumns(frame) ==
  KeepColumns(frame,
    {j \in 1..Len(frame.columns) :
       \A k \in 1..(j - 1) : frame.columns[k] # frame.columns[j]})

\* df.columns.str.strip()
StripColumns(frame) ==
  [frame EXCEPT !.columns = [j \in 1..Len(frame.columns) |-> Strip(frame.columns[j])]]

NormalizeFrame(frame) ==
  StripColumns(DropDuplicateColumns(DropEmptyColumns(
    CombineDebitCredit(RenameColumns(frame)))))

\* variant: only an empty header stops the run
DateMissingWhenNoColumns(frame) == frame.columns = <<>>

\* if "Date" not in df.columns: st.error(...); st.stop()
DateMissing(frame) == ~HasColumn(frame, "Date")

----------------------------------------------------------------------------
(* Categorization and statements *)

\* str(description).lower()
DescText(cell) ==
  IF cell.t = "str" THEN Lower(cell.s) ELSE IF cell.t = "nan" THEN "nan" ELSE ""

categorize(description, amount) ==
  LET d == DescText(description)
  IN IF Contains(d, "shell") \/ Contains(d, "fuel") THEN "Fuel Expense"
     ELSE IF Contains(d, "salary") \/ Contains(d, "payroll") THEN "Payroll Expense"
     ELSE IF Contains(d, "rent") THEN "Rent Expense"
     ELSE IF Contains(d, "tax") \/ Contains(d, "vat") THEN "Tax"
     ELSE IF amount.t = "num" /\ amount.n > 0 THEN "Sales Income"
     ELSE "Other Expense"

\* pd.to_numeric(cell, errors="coerce")
ToNumeric(cell) ==
  IF cell.t = "num" THEN cell
  ELSE IF cell.t = "str" /\ ~FloatRaises(cell.s) THEN Num(Float(cell.s))
  ELSE NaN

\* df["Amount"] = pd.to_numeric(...); df["Category"] = df.apply(categorize)
Categorized(frame) ==
  LET amounts == [i \in 1..Len(frame.rows) |-> ToNumeric(ColumnOf(frame, "Amount")[i])]
      numeric == SetColumn(frame, "Amount", amounts)
      descs == ColumnOf(numeric, "Description")
  IN SetColumn(numeric, "Category",
       [i \in 1..Len(frame.rows) |-> Str(categorize(descs[i], amounts[i]))])

\* df["Amount"] or row["Description"] raises KeyError
CategorizeRaises(frame) ==
  ~HasColumn(frame, "Amount") \/ ~HasColumn(frame, "Description")

\* frame[keep]["Amount"].sum(): NaN is skipped
RECURSIVE SumAmounts(_, _, _)
SumAmounts(frame, keep, i) ==
  IF i > Len(frame.rows) THEN 0
  ELSE (IF i \in keep /\ ColumnOf(frame, "Amount")[i].t = "num"
        THEN ColumnOf(frame, "Amount")[i].n ELSE 0)
       + SumAmounts(frame, keep, i + 1)

RowsOfCategory(frame, word) ==
  {i \in 1..Len(frame.rows) : Contains(ColumnOf(frame, "Category")[i].s, word)}

Abs(v) == IF v < 0 THEN 0 - v ELSE v

income(frame) ==
  SumAmounts(frame,
    {i \in 1..Len(frame.rows) : ColumnOf(frame, "Category")[i].s = "Sales Income"}, 1)
expenses(frame) == SumAmounts(frame, RowsOfCategory(frame, "Expense"), 1)
net_profit(frame) == income(frame) + expenses(frame)
total_assets(frame) == SumAmounts(frame, 1..Len(frame.rows), 1)
total_liabilities(frame) == Abs(expenses(frame))
equity(frame) == total_assets(frame) - total_liabilities(frame)


----------------------------------------------------------------------------
(* The script run *)

VARIABLES
  pc,             \* where the run stands
  uploaded_file,  \* the upload: [name, fault, table, pdf]
  rows,           \* parse_pdf_smart: the text lines recovered so far
  page_no,        \* parse_pdf_smart: pages the running loop has visited
  text_lines,     \* number of lines the text layer produced
  ocr_calls,      \* pages handed to pytesseract.image_to_string, in call order
  data,           \* parse_pdf_smart: the candidates extracted from rows
  df,             \* the transaction table
  error,          \* the st.error message shown, "" if none
  raised,         \* the exception that ended the run uncaught, "" if none
  stages,         \* the sections rendered so far, in order
  report,         \* the metrics computed so far
  tmp_files,      \* temporary files on disk
  pdf_file        \* the name create_pdf returned, "" if none

vars == <<pc, uploaded_file, rows, page_no, text_lines, ocr_calls, data, df,
          error, raised, stages, report, tmp_files, pdf_file>>

UnsupportedFormat == "Unsupported file format. Please upload CSV, Excel, or PDF."
UnableToParse == "Unable to parse CSV/Excel. Make sure your file is a valid bank statement."
\* f"Unexpected error: {e}"
UnexpectedError(e) == "Unexpected error: " \o e
NoTransactions == "Could not parse any transactions from this PDF. Try exporting CSV/Excel instead."
NoDateColumn == "No valid 'Date' column detected. Please check your PDF/CSV."

NoUpload == [name |-> "", fault |-> "none", table |-> NoTable, pdf |-> NoPdf]

IsCsv(f) == EndsWith(f.name, ".csv")
IsExcel(f) == ~IsCsv(f) /\ (EndsWith(f.name, ".xls") \/ EndsWith(f.name, ".xlsx"))
IsPdf(f) == ~IsCsv(f) /\ ~IsExcel(f) /\ EndsWith(f.name, ".pdf")

Init ==
  /\ pc = "upload"
  /\ uploaded_file = NoUpload
  /\ rows = <<>>
  /\ page_no = 0
  /\ text_lines = 0
  /\ ocr_calls = <<>>
  /\ data = <<>>
  /\ df = NoFrame
  /\ error = ""
  /\ raised = ""
  /\ stages = <<>>
  /\ report = <<>>
  /\ tmp_files = {}
  /\ pdf_file = ""

\* st.error(message); st.stop()
Stop(message) ==
  /\ error' = message
  /\ pc' = "stopped"

\* an exception nothing catches ends the run
Crash(exception) ==
  /\ raised' = exception
  /\ pc' = "crashed"

\* st.file_uploader returns a file
Upload ==
  /\ pc = "upload"
  /\ \E f \in Uploads : uploaded_file' = f
  /\ pc' = "read"
  /\ UNCHANGED <<rows, page_no, text_lines, ocr_calls, data, df, error, raised,
                 stages, report, tmp_files, pdf_file>>

\* pd.read_csv / pd.read_excel returns the table
ReadTabular ==
  /\ pc = "read"
  /\ IsCsv(uploaded_file) \/ IsExcel(uploaded_file)
  /\ uploaded_file.fault = "none"
  /\ df' = ReadTable(uploaded_file.table)
  /\ pc' = "normalize"
  /\ UNCHANGED <<uploaded_file, rows, page_no, text_lines, ocr_calls, data, error,
                 raised, stages, report, tmp_files, pdf_file>>

\* except pd.errors.ParserError
ReadParserError ==
  /\ pc = "read"
  /\ IsCsv(uploaded_file) \/ IsExcel(uploaded_file)
  /\ uploaded_file.fault = "ParserError"
  /\ Stop(UnableToParse)
  /\ UNCHANGED <<uploaded_file, rows, page_no, text_lines, ocr_calls, data, df,
                 raised, stages, report, tmp_files, pdf_file>>

\* except Exception, while reading a CSV or spreadsheet
ReadException ==
  /\ pc = "read"
  /\ IsCsv(uploaded_file) \/ IsExcel(uploaded_file)
  /\ uploaded_file.fault = "Exception"
  /\ Stop(UnexpectedError("read failed"))
  /\ UNCHANGED <<uploaded_file, rows, page_no, text_lines, ocr_calls, data, df,
                 raised, stages, report, tmp_files, pdf_file>>

\* else: st.error("Unsupported file format ..."); st.stop()
Unsupported ==
  /\ pc = "read"
  /\ ~IsCsv(uploaded_file) /\ ~IsExcel(uploaded_file) /\ ~IsPdf(uploaded_file)
  /\ Stop(UnsupportedFormat)
  /\ UNCHANGED <<uploaded_file, rows, page_no, text_lines, ocr_calls, data, df,
                 raised, stages, report, tmp_files, pdf_file>>

\* parse_pdf_smart is entered
OpenPdf ==
  /\ pc = "read"
  /\ IsPdf(uploaded_file)
  /\ pc' = "extract_text"
  /\ UNCHANGED <<uploaded_file, rows, page_no, text_lines, ocr_calls, data, df,
                 error, raised, stages, report, tmp_files, pdf_file>>

\* for page in pdf.pages: one iteration
ExtractPageText ==
  /\ pc = "extract_text"
  /\ page_no < Len(uploaded_file.pdf)
  /\ LET lines == TextLayerLines(uploaded_file.pdf[page_no + 1])
     IN /\ rows' = rows \o lines
        /\ text_lines' = text_lines + Len(lines)
  /\ page_no' = page_no + 1
  /\ pc' = IF page_no + 1 = Len(uploaded_file.pdf) THEN "ocr_check" ELSE pc
  /\ UNCHANGED <<uploaded_file, ocr_calls, data, df, error, raised, stages, report,
                 tmp_files, pdf_file>>

\* except: pass -- pdfplumber raises on open or on a page; rows keeps what it has
ExtractTextRaises ==
  /\ pc = "extract_text"
  /\ pc' = "ocr_check"
  /\ UNCHANGED <<uploaded_file, rows, page_no, text_lines, ocr_calls, data, df,
                 error, raised, stages, report, tmp_files, pdf_file>>

\* if not rows is false: no OCR
SkipOcr ==
  /\ pc = "ocr_check"
  /\ ~NeedsOcr(rows)
  /\ pc' = "extract_columns"
  /\ UNCHANGED <<uploaded_file, rows, page_no, text_lines, ocr_calls, data, df,
                 error, raised, stages, report, tmp_files, pdf_file>>

\* if not rows: images = convert_from_bytes(file_bytes)
ConvertToImages ==
  /\ pc = "ocr_check"
  /\ NeedsOcr(rows)
  /\ page_no' = 0
  /\ pc' = "ocr"
  /\ UNCHANGED <<uploaded_file, rows, text_lines, ocr_calls, data, df, error, raised,
                 stages, report, tmp_files, pdf_file>>

\* for image in images: one iteration
OcrPage ==
  /\ pc = "ocr"
  /\ page_no < Len(uploaded_file.pdf)
  /\ ocr_calls' = Append(ocr_calls, page_no + 1)
  /\ rows' = rows \o OcrLines(uploaded_file.pdf[page_no + 1])
  /\ page_no' = page_no + 1
  /\ pc' = IF page_no + 1 = Len(uploaded_file.pdf) THEN "extract_columns" ELSE pc
  /\ UNCHANGED <<uploaded_file, text_lines, data, df, error, raised, stages, report,
                 tmp_files, pdf_file>>

\* convert_from_bytes or image_to_string raises: parse_pdf_smart does not catch
\* it, the caller's except Exception does
OcrRaises ==
  /\ \/ pc = "ocr_check" /\ NeedsOcr(rows) /\ UNCHANGED ocr_calls
     \/ /\ pc = "ocr"
        /\ ocr_calls' = Append(ocr_calls, page_no + 1)
  /\ Stop(UnexpectedError("OCR failed"))
  /\ UNCHANGED <<uploaded_file, rows, page_no, text_lines, data, df, raised, stages,
                 report, tmp_files, pdf_file>>

\* for row in rows: ... data.append([date_val, desc, amount_val])
ExtractColumns ==
  /\ pc = "extract_columns"
  /\ ~ExtractRaises(rows)
  /\ data' = ExtractData(rows)
  /\ pc' = "build_frame"
  /\ UNCHANGED <<uploaded_file, rows, page_no, text_lines, ocr_calls, df, error,
                 raised, stages, report, tmp_files, pdf_file>>

\* float(...) raises ValueError inside the loop; the caller's except Exception
\* reports it
ExtractColumnsRaises ==
  /\ pc = "extract_columns"
  /\ ExtractRaises(rows)
  /\ Stop(UnexpectedError("could not convert string to float"))
  /\ UNCHANGED <<uploaded_file, rows, page_no, text_lines, ocr_calls, data, df,
                 raised, stages, report, tmp_files, pdf_file>>

\* lines 67-71 and 98-101: parse_pdf_smart returns the frame; if df.empty:
\* st.error(...); st.stop()
ParsePdfReturns ==
  /\ pc = "build_frame"
  /\ LET frame == BuildFrame(data)
     IN /\ df' = frame
        /\ IF frame.rows = <<>>
           THEN Stop(NoTransactions)
           ELSE pc' = "normalize" /\ UNCHANGED error
  /\ UNCHANGED <<uploaded_file, rows, page_no, text_lines, ocr_calls, data, raised,
                 stages, report, tmp_files, pdf_file>>

\* lines 117-148: the columns are normalized; without a Date column,
\* st.error(...); st.stop()
NormalizeColumns ==
  /\ pc = "normalize"
  /\ LET frame == NormalizeFrame(df)
     IN /\ df' = frame
        /\ IF DateMissing(frame)
           THEN Stop(NoDateColumn)
           ELSE pc' = "categorize" /\ UNCHANGED error
  /\ UNCHANGED <<uploaded_file, rows, page_no, text_lines, ocr_calls, data, raised,
                 stages, report, tmp_files, pdf_file>>

\* lines 167-171: Amount to numeric, Category, the Transactions table
Categorize ==
  /\ pc = "categorize"
  /\ ~CategorizeRaises(df)
  /\ df' = Categorized(df)
  /\ stages' = Append(stages, "Transactions")
  /\ pc' = "income_statement"
  /\ UNCHANGED <<uploaded_file, rows, page_no, text_lines, ocr_calls, data, error,
                 raised, report, tmp_files, pdf_file>>

\* df["Amount"] or row["Description"] is missing
CategorizeKeyError ==
  /\ pc = "categorize"
  /\ CategorizeRaises(df)
  /\ Crash("KeyError")
  /\ UNCHANGED <<uploaded_file, rows, page_no, text_lines, ocr_calls, data, df,
                 error, stages, report, tmp_files, pdf_file>>

IncomeStatement ==
  /\ pc = "income_statement"
  /\ report' = report @@ [Revenue |-> income(df), Expenses |-> expenses(df),
                          NetProfit |-> net_profit(df)]
  /\ stages' = Append(stages, "Income Statement")
  /\ pc' = "balance_sheet"
  /\ UNCHANGED <<uploaded_file, rows, page_no, text_lines, ocr_calls, data, df,
                 error, raised, tmp_files, pdf_file>>

BalanceSheet ==
  /\ pc = "balance_sheet"
  /\ report' = report @@ [Assets |-> total_assets(df),
                          Liabilities |-> total_liabilities(df),
                          Equity |-> equity(df)]
  /\ stages' = Append(stages, "Balance Sheet")
  /\ pc' = "ratios"
  /\ UNCHANGED <<uploaded_file, rows, page_no, text_lines, ocr_calls, data, df,
                 error, raised, tmp_files, pdf_file>>

\* the ratios table is rendered from report; nothing later reads it
Ratios ==
  /\ pc = "ratios"
  /\ stages' = Append(stages, "Ratios")
  /\ pc' = "charts"
  /\ UNCHANGED <<uploaded_file, rows, page_no, text_lines, ocr_calls, data, df,
                 error, raised, report, tmp_files, pdf_file>>

\* the two charts are rendered from df; nothing later reads them
Charts ==
  /\ pc = "charts"
  /\ stages' = Append(stages, "Charts")
  /\ pc' = "valuation"
  /\ UNCHANGED <<uploaded_file, rows, page_no, text_lines, ocr_calls, data, df,
                 error, raised, report, tmp_files, pdf_file>>

\* dcf_ev, ev_ebitda, ev_revenue (income * 1.5, to the thousandth)
Valuation ==
  /\ pc = "valuation"
  /\ report' = report @@ [DcfEv |-> report.NetProfit * 5,
                          EvEbitda |-> report.NetProfit * 6,
                          EvRevenue |-> (report.Revenue * 3) \div 2]
  /\ stages' = Append(stages, "Enterprise Valuation")
  /\ pc' = "pdf_button"
  /\ UNCHANGED <<uploaded_file, rows, page_no, text_lines, ocr_calls, data, df,
                 error, raised, tmp_files, pdf_file>>

\* st.button("Download PDF") is False in this run
PdfButtonNotPressed ==
  /\ pc = "pdf_button"
  /\ pc' = "excel_export"
  /\ UNCHANGED <<uploaded_file, rows, page_no, text_lines, ocr_calls, data, df,
                 error, raised, stages, report, tmp_files, pdf_file>>

TmpName == "report.pdf"

\* create_pdf: NamedTemporaryFile(delete=False), pdf.output, return tmp_pdf.name
create_pdf ==
  /\ pc = "pdf_button"
  /\ tmp_files' = tmp_files \cup {TmpName}
  /\ pdf_file' = TmpName
  /\ pc' = "pdf_open"
  /\ UNCHANGED <<uploaded_file, rows, page_no, text_lines, ocr_calls, data, df,
                 error, raised, stages, report>>

\* create_pdf: the temporary file is made, then pdf.output raises
create_pdf_raises ==
  /\ pc = "pdf_button"
  /\ tmp_files' = tmp_files \cup {TmpName}
  /\ Crash("OutputError")
  /\ UNCHANGED <<uploaded_file, rows, page_no, text_lines, ocr_calls, data, df,
                 error, stages, report, pdf_file>>

\* with open(pdf_file, "rb") as f
OpenReport ==
  /\ pc = "pdf_open"
  /\ pc' = "pdf_download"
  /\ UNCHANGED <<uploaded_file, rows, page_no, text_lines, ocr_calls, data, df,
                 error, raised, stages, report, tmp_files, pdf_file>>

\* open raises OSError
OpenReportRaises ==
  /\ pc = "pdf_open"
  /\ Crash("OSError")
  /\ UNCHANGED <<uploaded_file, rows, page_no, text_lines, ocr_calls, data, df,
                 error, stages, report, tmp_files, pdf_file>>

\* st.download_button("Download PDF", data=f, ...)
DownloadPdf ==
  /\ pc = "pdf_download"
  /\ stages' = Append(stages, "Download PDF")
  /\ pc' = "pdf_remove"
  /\ UNCHANGED <<uploaded_file, rows, page_no, text_lines, ocr_calls, data, df,
                 error, raised, report, tmp_files, pdf_file>>

\* st.download_button raises; the with block closes f and the exception goes on
DownloadPdfRaises ==
  /\ pc = "pdf_download"
  /\ Crash("StreamlitAPIException")
  /\ UNCHANGED <<uploaded_file, rows, page_no, text_lines, ocr_calls, data, df,
                 error, stages, report, tmp_files, pdf_file>>

\* os.remove(pdf_file)
RemoveReport ==
  /\ pc = "pdf_remove"
  /\ tmp_files' = tmp_files \ {pdf_file}
  /\ pc' = "excel_export"
  /\ UNCHANGED <<uploaded_file, rows, page_no, text_lines, ocr_calls, data, df,
                 error, raised, stages, report, pdf_file>>

\* the workbook is written to memory and offered for download
ExcelExport ==
  /\ pc = "excel_export"
  /\ stages' = Append(stages, "Download Excel")
  /\ pc' = "done"
  /\ UNCHANGED <<uploaded_file, rows, page_no, text_lines, ocr_calls, data, df,
                 error, raised, report, tmp_files, pdf_file>>

Next ==
  \/ Upload
  \/ ReadTabular
  \/ ReadParserError
  \/ ReadException
  \/ Unsupported
  \/ OpenPdf
  \/ ExtractPageText
  \/ ExtractTextRaises
  \/ SkipOcr
  \/ ConvertToImages
  \/ OcrPage
  \/ OcrRaises
  \/ ExtractColumns
  \/ ExtractColumnsRaises
  \/ ParsePdfReturns
  \/ NormalizeColumns
  \/ Categorize
  \/ CategorizeKeyError
  \/ IncomeStatement
  \/ BalanceSheet
  \/ Ratios
  \/ Charts
  \/ Valuation
  \/ PdfButtonNotPressed
  \/ create_pdf
  \/ create_pdf_raises
  \/ OpenReport
  \/ OpenReportRaises
  \/ DownloadPdf
  \/ DownloadPdfRaises
  \/ RemoveReport
  \/ ExcelExport

Spec == Init /\ [][Next]_vars


----------------------------------------------------------------------------
(* Properties *)

Count(seq, x) == Cardinality({j \in 1..Len(seq) : seq[j] = x})

Min(S) == CHOOSE x \in S : \A y \in S : x <= y

Rendered(stage) == \E k \in 1..Len(stages) : stages[k] = stage

ValueErrorShown == error = UnexpectedError("could not convert string to float")

\* parse_pdf_smart has recovered its lines and gone on to the extraction
LinesRecovered ==
  /\ IsPdf(uploaded_file)
  /\ \/ pc \notin {"upload", "read", "extract_text", "ocr_check", "ocr", "stopped"}
     \/ pc = "stopped" /\ (error \in {NoTransactions, NoDateColumn} \/ ValueErrorShown)

\* the column extraction of parse_pdf_smart has ended, by return or by exception
ExtractionEnded == LinesRecovered /\ pc # "extract_columns"

\* the frame of a CSV or spreadsheet upload has gone through lines 117-144
TableNormalized ==
  /\ uploaded_file.table # NoTable
  /\ pc = "categorize" \/ error = NoDateColumn

RECURSIVE AllTextLines(_, _)
AllTextLines(doc, n) ==
  IF n = 0 THEN <<>> ELSE AllTextLines(doc, n - 1) \o TextLayerLines(doc[n])

RECURSIVE AllOcrLines(_, _)
AllOcrLines(doc, n) ==
  IF n = 0 THEN <<>> ELSE AllOcrLines(doc, n - 1) \o OcrLines(doc[n])

\* C1: for a line with exactly one date token and one amount token, the amount
\* of the emitted candidate is the amount token, commas removed, as a number
\* (1234.56 for "01/02/2025 Grocery Store 1,234.56").
C1_AmountIsTheWholeToken ==
  \A k \in 1..Len(data) : \A txn \in Transactions :
    rows[data[k].origin] = LineOf(txn)
      => data[k].cells[3] = Num(Float(Replace(txn.amount, ",", "")))

\* C2: for a line with exactly one date token and one amount token, the
\* description of the emitted candidate is the line without the date token and
\* without the whole amount token, trimmed ("Grocery Store" for the line above).
C2_DescriptionExcludesBothTokens ==
  \A k \in 1..Len(data) : \A txn \in Transactions :
    rows[data[k].origin] = LineOf(txn)
      => data[k].cells[2] = Str(txn.description)

\* C3: a table with a Date, a debit and a credit column comes out of the column
\* normalization with one Amount column equal to credit minus debit row by row,
\* missing cells as zero, and with no debit or credit column.
C3_AmountIsCreditMinusDebit ==
  LET t == uploaded_file.table
      raw == ReadTable(t)
  IN (/\ TableNormalized
      /\ pc = "categorize"
      /\ {t[j].header : j \in 1..Len(t)} = {"Txn Date", "debit", "credit"})
     => /\ Count(df.columns, "Amount") = 1
        /\ ~HasColumn(df, "debit")
        /\ ~HasColumn(df, "credit")
        /\ \A i \in 1..Len(df.rows) :
             ColumnOf(df, "Amount")[i]
               = Num(FillNa(ColumnOf(raw, "credit"))[i] - FillNa(ColumnOf(raw, "debit"))[i])

\* C4: on every input path, every row of the table that is categorized and
\* displayed has a Date that is a valid calendar date; a row with an unparsable
\* Date cell is not in it.
C4_DisplayedRowsHaveValidDates ==
  Rendered("Transactions")
    => \A i \in 1..Len(df.rows) :
         LET d == ColumnOf(df, "Date")[i]
         IN d.t = "ts" \/ (d.t = "str" /\ to_datetime(d.s) > 0)

\* C5: OCR runs exactly when the text layer produced no line over all pages;
\* when it runs, recognition is called once per page in page order and the
\* recovered lines, hence the candidates, are OCR lines only; when the text
\* layer produced a line, OCR is never called.
C5_OcrExactlyWhenNoTextLine ==
  LET doc == uploaded_file.pdf
  IN /\ ocr_calls = [k \in 1..Len(ocr_calls) |-> k]
     /\ Len(ocr_calls) <= Len(doc)
     /\ pc \in {"extract_text", "ocr_check"} => ocr_calls = <<>>
     /\ (ocr_calls # <<>> \/ pc = "ocr") => text_lines = 0
     /\ LinesRecovered =>
          IF text_lines = 0
          THEN /\ ocr_calls = [k \in 1..Len(doc) |-> k]
               /\ rows = AllOcrLines(doc, Len(doc))
               /\ \A k \in 1..Len(data) : data[k].origin \in 1..Len(rows)
          ELSE ocr_calls = <<>>

C5_Witness ==
  /\ pc = "build_frame"
  /\ Len(uploaded_file.pdf) = 2
  /\ ocr_calls = <<1, 2>>
  /\ text_lines = 0
  /\ Len(data) >= 2

\* C6: once the PDF export has ended, by success or by a failing step, no
\* temporary file it created is left.
C6_TempFileDeletedOnEveryExit ==
  pc \in {"excel_export", "done", "crashed"} => tmp_files = {}

\* C7: an unsupported extension, a CSV/spreadsheet parse error, a PDF without
\* any extracted row and a table without a Date column each end the run with an
\* error message: nothing is rendered, computed or exported for that upload,
\* and no step runs afterwards.
C7_FailureStopsTheRun ==
  /\ error # "" =>
       /\ pc = "stopped"
       /\ ~ENABLED Next
       /\ stages = <<>> /\ report = <<>> /\ tmp_files = {}
  /\ (pc \notin {"upload", "read"} /\ uploaded_file.table = NoTable
        /\ ~IsPdf(uploaded_file) /\ uploaded_file.fault = "none")
       => error = UnsupportedFormat
  /\ (pc \notin {"upload", "read"} /\ uploaded_file.fault = "ParserError")
       => error = UnableToParse
  /\ (LinesRecovered /\ pc \notin {"extract_columns", "build_frame"}
        /\ ~ValueErrorShown /\ df.rows = <<>>)
       => error = NoTransactions
  /\ stages # <<>> => HasColumn(df, "Date")

C7_Witness ==
  /\ pc = "stopped"
  /\ error = NoDateColumn
  /\ uploaded_file.table # NoTable
  /\ df.columns # <<>>

\* the canonical name a header is meant to get
IntendedName ==
  [h \in Headers |->
     CASE h = "Txn Date" -> "Date"
       [] h \in {"AMOUNT", "Transaction Amount", "debit", "credit"} -> "Amount"
       [] h = "transaction_details" -> "Description"
       [] OTHER -> ""]

\* the canonical name of the first keyword class, in the order Date,
\* Description, Amount, that a header holds
FirstClassName ==
  [h \in Headers |->
     CASE h = "Txn Date" -> "Date"
       [] h \in {"AMOUNT", "debit", "credit"} -> "Amount"
       [] h \in {"transaction_details", "Transaction Amount"} -> "Description"
       [] OTHER -> ""]

Survives(row) == RowMatches(row) /\ to_datetime(date_match(row)) > 0

\* C9: the table keeps encounter order and multiplicity: recovered lines are in
\* page order and line order, rows of the table are in the order of the lines
\* or records they come from, one row per surviving line or record, identical
\* ones included.
C9_EncounterOrderAndMultiplicity ==
  LET doc == uploaded_file.pdf
  IN /\ Len(df.origin) = Len(df.rows)
     /\ \A i, j \in 1..Len(df.origin) : i < j => df.origin[i] < df.origin[j]
     /\ (uploaded_file.table # NoTable /\ df # NoFrame)
          => df.origin = [i \in 1..Len(ColumnText[uploaded_file.table[1].header]) |-> i]
     /\ (IsPdf(uploaded_file) /\ rows # <<>>)
          => rows = IF text_lines > 0
                    THEN AllTextLines(doc, page_no)
                    ELSE AllOcrLines(doc, page_no)
     /\ (LinesRecovered /\ pc \notin {"extract_columns", "build_frame"}
           /\ ~ValueErrorShown)
          => {df.origin[i] : i \in 1..Len(df.origin)}
               = {i \in 1..Len(rows) : Survives(rows[i])}

C9_Witness ==
  /\ pc = "categorize"
  /\ IsPdf(uploaded_file)
  /\ Len(df.rows) >= 3
  /\ df.rows[1] = df.rows[2]
  /\ df.origin[2] < df.origin[3]

\* C10: once the extraction loop has ended, each recovered line has yielded
\* one candidate if the date pattern matches it and none otherwise.
C10_CandidateIffDateMatches ==
  ExtractionEnded =>
    \A i \in 1..Len(rows) :
      Cardinality({k \in 1..Len(data) : data[k].origin = i})
        = IF date_regex(rows[i]) # "" THEN 1 ELSE 0


====
